---- MODULE Spec2Model ----
(***************************************************************************)
(* Model of wikcli's bulk move: Wiki::list_pages, Wiki::move_pages and     *)
(* Wiki::safety_check_private (src/src/lib.rs) driven by the `move`        *)
(* command of main (src/src/main.rs).                                      *)
(*                                                                         *)
(* Strings that the code slices, compares or searches (paths, prefix,      *)
(* destination, tags) are sequences of one-character strings; Byte gives   *)
(* the byte value Rust's String ordering compares.  Option<T> is a         *)
(* sequence of length 0 (None) or 1 (Some).                                *)
(***************************************************************************)
EXTENDS Integers, Sequences, FiniteSets, TLC

\* Longest backend page list the model enumerates.
MaxPages == 3

None == << >>
Some(x) == << x >>
IsSome(o) == Len(o) = 1
Unwrap(o) == o[1]

Range(s) == { s[i] : i \in 1..Len(s) }

(***************************************************************************)
(* Strings                                                                 *)
(***************************************************************************)
Byte == [ c \in {"/", "a", "b", "c", "e", "i", "n", "p", "r", "s", "t", "v", "y", "z"} |->
          CASE c = "/" -> 47  [] c = "a" -> 97  [] c = "b" -> 98  [] c = "c" -> 99
            [] c = "e" -> 101 [] c = "i" -> 105 [] c = "n" -> 110 [] c = "p" -> 112
            [] c = "r" -> 114 [] c = "s" -> 115 [] c = "t" -> 116 [] c = "v" -> 118
            [] c = "y" -> 121 [] c = "z" -> 122 ]

\* str::starts_with
starts_with(s, pat) ==
    /\ Len(pat) <= Len(s)
    /\ SubSeq(s, 1, Len(pat)) = pat

\* str::contains
contains(s, pat) ==
    \E i \in 0..Len(s) :
        /\ i + Len(pat) <= Len(s)
        /\ SubSeq(s, i + 1, i + Len(pat)) = pat

\* Ord::cmp on String is bytewise lexicographic: Less / Equal / Greater.
StrLess(a, b) ==
    \E k \in 1..(Len(b)) :
        /\ k <= Len(a) + 1
        /\ SubSeq(a, 1, k - 1) = SubSeq(b, 1, k - 1)
        /\ \/ k = Len(a) + 1
           \/ k <= Len(a) /\ Byte[a[k]] < Byte[b[k]]

\* &s[trim..]: the slice panics when trim is past the end of the string.
SliceOk(s, trim) == trim <= Len(s)
SliceFrom(s, trim) == SubSeq(s, trim + 1, Len(s))

(***************************************************************************)
(* Pages the backend may hold (queries::PageListItem).                     *)
(***************************************************************************)
private_word == << "p", "r", "i", "v", "a", "t", "e" >>

PagePool ==
    { [ id |-> 11, path |-> << "/", "a", "/", "b" >>,
        tags |-> None, title |-> None ],
      [ id |-> 12, path |-> << "/", "a", "/", "a", "p", "r", "i", "v", "a", "t", "e", "s" >>,
        tags |-> Some(<< >>), title |-> Some("Privateers") ],
      [ id |-> 13, path |-> << "/", "a", "/", "c" >>,
        tags |-> Some(<< Some(<< "n" >>), Some(private_word) >>), title |-> Some("C") ],
      [ id |-> 14, path |-> << "/", "b", "/", "p", "r", "i", "v", "a", "t" >>,
        tags |-> Some(<< None, Some(<< "p", "r", "i", "v", "a", "t", "e", "s" >>) >>),
        title |-> Some("B") ] }

Prefixes ==
    { << >>, << "/", "a" >>, << "/", "b" >>, << "a", "/" >>,
      << "/", "a", "/", "b", "/" >> }

Destinations == { << "/", "n" >>, << "/", "a", "/", "b" >> }

RECURSIVE SeqsNoRepeat(_, _)
SeqsNoRepeat(S, n) ==
    IF n = 0 THEN { << >> }
    ELSE LET shorter == SeqsNoRepeat(S, n - 1)
         IN  shorter \cup
             { Append(s, x) : s \in { t \in shorter : Len(t) = n - 1 }, x \in S }

\* Page lists a backend reply can carry: every page at most once.
PageLists ==
    { s \in SeqsNoRepeat(PagePool, MaxPages) :
        \A i, j \in 1..Len(s) : i # j => s[i] # s[j] }

(***************************************************************************)
(* Wiki::list_pages: the local filter and sort.                            *)
(***************************************************************************)
\* Slice::sort_by is stable: x goes after every element that is not greater.
RECURSIVE InsertByPath(_, _)
InsertByPath(sorted, x) ==
    IF sorted = << >> THEN << x >>
    ELSE IF StrLess(x.path, sorted[1].path) THEN << x >> \o sorted
    ELSE << sorted[1] >> \o InsertByPath(Tail(sorted), x)

RECURSIVE SortedByPath(_)
SortedByPath(s) ==
    IF s = << >> THEN << >>
    ELSE InsertByPath(SortedByPath(SubSeq(s, 1, Len(s) - 1)), s[Len(s)])

PathMatches(p, pre) == starts_with(p.path, pre)

\* FilteredPages without the filter.
FilteredPages_unfiltered(page_list, pre) ==
    SortedByPath(page_list)

\* FilteredPages without the sort.
FilteredPages_unsorted(page_list, pre) ==
    SelectSeq(page_list, LAMBDA p : PathMatches(p, pre))

FilteredPages(page_list, pre) ==
    SortedByPath(SelectSeq(page_list, LAMBDA p : PathMatches(p, pre)))

(***************************************************************************)
(* Wiki::safety_check_private                                              *)
(***************************************************************************)
private_tag == Some(private_word)

\* IsPrivate matching only a whole /private/ path segment.
IsPrivate_segmentOnly(p) ==
    LET is_private_tag ==
            IF IsSome(p.tags) THEN private_tag \in Range(Unwrap(p.tags)) ELSE FALSE
        is_private_path == contains(p.path, << "/" >> \o private_word \o << "/" >>)
    IN  is_private_tag \/ is_private_path

IsPrivate(p) ==
    LET is_private_tag ==
            IF IsSome(p.tags) THEN private_tag \in Range(Unwrap(p.tags)) ELSE FALSE
        is_private_path == contains(p.path, private_word)
    IN  is_private_tag \/ is_private_path

\* safety_check_private without the peek: Some even when nothing matched.
safety_check_private_noPeek(ps) ==
    Some(SelectSeq(ps, IsPrivate))

safety_check_private(ps) ==
    LET private_pages == SelectSeq(ps, IsPrivate)
    IN  IF Len(private_pages) > 0 THEN Some(private_pages) ELSE None

(***************************************************************************)
(* Wiki::move_pages: operations, replies and reconciliation.               *)
(***************************************************************************)
\* MoveOp without the trim of the prefix.
MoveOp_untrimmed(p, trim, dest) ==
    [ id |-> p.id, destination_path |-> dest \o p.path ]

MoveOp(p, trim, dest) ==
    [ id |-> p.id, destination_path |-> dest \o SliceFrom(p.path, trim) ]

MoveOps(ps, pre, dest) ==
    [ i \in 1..Len(ps) |-> MoveOp(ps[i], Len(pre), dest) ]

\* queries::ResponseStatus values a backend may answer with.
Statuses ==
    { [ error_code |-> 0, message |-> Some("Page has been moved."),
        slug |-> "ok", succeeded |-> TRUE ],
      [ error_code |-> 403, message |-> Some("Forbidden"),
        slug |-> "PageMoveForbidden", succeeded |-> FALSE ],
      [ error_code |-> 6006, message |-> None,
        slug |-> "PagePathCollision", succeeded |-> FALSE ] }

\* cynic::GraphQlResponse<MoveSinglePage>.data with each Option level.
MoveData ==
    { None,
      Some([ pages |-> None ]),
      Some([ pages |-> Some([ move_ |-> None ]) ]),
      Some([ pages |-> Some([ move_ |-> Some([ response_result |-> None ]) ]) ]) }
    \cup
    { Some([ pages |-> Some([ move_ |-> Some([ response_result |-> Some(st) ]) ]) ])
        : st \in Statuses }

\* A JSON body that parsed as GraphQlResponse<Value>; typed is FALSE when
\* Operation::decode_response rejects it.
Bodies ==
    { [ typed |-> TRUE, data |-> d ] : d \in MoveData }
    \cup { [ typed |-> FALSE, data |-> None ] }

\* ExtractStatus reporting a missing status as a failure of its own.
ExtractStatus_missingIsFailure(data) ==
    LET missing == Some([ error_code |-> 1, message |-> None,
                          slug |-> "NoStatus", succeeded |-> FALSE ])
    IN  IF IsSome(data)
        THEN LET t == Unwrap(data)
             IN  IF IsSome(t.pages)
                 THEN LET ptm == Unwrap(t.pages)
                      IN  IF IsSome(ptm.move_)
                          THEN LET rr == Unwrap(ptm.move_).response_result
                               IN  IF IsSome(rr) THEN rr ELSE missing
                          ELSE missing
                 ELSE missing
        ELSE missing

\* The nested match of the filter_map closure.
ExtractStatus(data) ==
    IF IsSome(data)
    THEN LET t == Unwrap(data)
         IN  IF IsSome(t.pages)
             THEN LET ptm == Unwrap(t.pages)
                  IN  IF IsSome(ptm.move_)
                      THEN Unwrap(ptm.move_).response_result
                      ELSE None
             ELSE None
    ELSE None

\* CollectStatuses gathering the statuses back to front.
RECURSIVE CollectStatuses_reversed(_)
CollectStatuses_reversed(bodies) ==
    IF bodies = << >> THEN << >>
    ELSE LET r == ExtractStatus(bodies[1].data)
         IN  CollectStatuses_reversed(Tail(bodies))
             \o (IF IsSome(r) THEN << Unwrap(r) >> ELSE << >>)

\* filter_map over the zipped (json, op) pairs: the statuses that are present.
RECURSIVE CollectStatuses(_)
CollectStatuses(bodies) ==
    IF bodies = << >> THEN << >>
    ELSE LET r == ExtractStatus(bodies[1].data)
         IN  (IF IsSome(r) THEN << Unwrap(r) >> ELSE << >>)
             \o CollectStatuses(Tail(bodies))

\* anyhow::Result<MoveSuccess>: Err(msg), Ok(MoveSuccess), or not returned yet.
Bail(m) == [ kind |-> "Err", msg |-> m, success_count |-> 0, failures |-> None ]
NoResult == [ kind |-> "none", msg |-> "", success_count |-> 0, failures |-> None ]

\* The partition predicate negated.
IsSucceeded_negated(r) == ~r.succeeded

IsSucceeded(r) == r.succeeded

\* Reconciled treating a batch without any success like a failed stage.
Reconciled_allRefusedFatal(bodies) ==
    LET statuses == CollectStatuses(bodies)
        ok  == SelectSeq(statuses, IsSucceeded)
        err == SelectSeq(statuses, LAMBDA r : ~IsSucceeded(r))
    IN  IF Len(err) > 0 /\ Len(ok) = 0
        THEN Bail("All the moves failed.")
        ELSE [ kind |-> "Ok", msg |-> "",
               success_count |-> Len(ok),
               failures |-> IF Len(err) = 0 THEN None ELSE Some(err) ]

Reconciled(bodies) ==
    LET statuses == CollectStatuses(bodies)
        ok  == SelectSeq(statuses, IsSucceeded)
        err == SelectSeq(statuses, LAMBDA r : ~IsSucceeded(r))
    IN  [ kind |-> "Ok", msg |-> "",
          success_count |-> Len(ok),
          failures |-> IF Len(err) = 0 THEN None ELSE Some(err) ]

\* Classify matching on ok.len() first: nothing ok reads as all failed.
Classify_noneOkIsAllFailed(outcomes, allMsg, someMsg) ==
    LET ok  == { i \in DOMAIN outcomes : outcomes[i] = "ok" }
        err == { i \in DOMAIN outcomes : outcomes[i] = "err" }
    IN  IF Cardinality(ok) = 0 THEN Bail(allMsg)
        ELSE IF Cardinality(err) = 0 THEN NoResult
        ELSE Bail(someMsg)

\* Classify with the inner match arms exchanged.
Classify_armsSwapped(outcomes, allMsg, someMsg) ==
    LET ok  == { i \in DOMAIN outcomes : outcomes[i] = "ok" }
        err == { i \in DOMAIN outcomes : outcomes[i] = "err" }
    IN  IF Cardinality(err) = 0 THEN NoResult
        ELSE IF Cardinality(ok) = 0 THEN Bail(someMsg)
        ELSE Bail(allMsg)

\* match err.len() { 0 => proceed, _ => match ok.len() { 0 => all, _ => some } }
Classify(outcomes, allMsg, someMsg) ==
    LET ok  == { i \in DOMAIN outcomes : outcomes[i] = "ok" }
        err == { i \in DOMAIN outcomes : outcomes[i] = "err" }
    IN  IF Cardinality(err) = 0 THEN NoResult
        ELSE IF Cardinality(ok) = 0 THEN Bail(allMsg)
        ELSE Bail(someMsg)

(***************************************************************************)
(* The `move` command of main.                                             *)
(***************************************************************************)
VARIABLES
    pc,               \* position in main's Command::Move or Command::List arm
    prefix,           \* `path` argument
    destination,      \* `--destination` argument
    reply,            \* what the backend answered to the list query
    pages,            \* ListPages.pages, the working set
    pages_returned,   \* ListPages.pages_returned
    max_path,         \* column width of the listing
    proceed,          \* answer to "Are you sure you want to do this?"
    private_pages,    \* result of safety_check_private
    proceed_private,  \* answer to the private-pages prompt
    ops,              \* move_pages: one operation per page
    raw,              \* move_pages: state of each request of join_all(requests)
    wire,             \* move mutations handed to the HTTP client, in order
    jsons,            \* move_pages: state of each body of join_all(.json())
    moves,            \* what move_pages returned
    output,           \* final message of the command
    add_tags,         \* tag run: the caller-supplied extra tags
    tag_report        \* tag run: the report returned

vars == << pc, prefix, destination, reply, pages, pages_returned, max_path,
           proceed, private_pages, proceed_private, ops, raw, wire, jsons,
           moves, output, add_tags, tag_report >>

NoReply == [ kind |-> "none", list |-> << >> ]

\* Outcomes of the list query: the two .expect()s and the .unwrap() panic,
\* the two bail!s return an error, a list goes on to the filter.
ListReplies ==
    { [ kind |-> k, list |-> << >> ] :
        k \in { "send_err", "json_err", "decode_err", "no_data", "no_pages" } }
    \cup { [ kind |-> "list", list |-> l ] : l \in PageLists }

Answers == { "yes", "no", "io_err" }

Unread == [ st |-> "pending", body |-> None ]

NoTagReport ==
    [ kind |-> "none", success_count |-> 0, failures |-> None,
      safety_tag |-> << >>, tags |-> << >> ]

Init ==
    /\ \/ pc = "start" /\ destination \in Destinations
       \/ pc = "list_start" /\ destination = << >>
    /\ prefix \in Prefixes
    /\ reply = NoReply
    /\ pages = << >>
    /\ pages_returned = 0
    /\ max_path = 0
    /\ proceed = "unasked"
    /\ private_pages = None
    /\ proceed_private = "unasked"
    /\ ops = << >>
    /\ raw = << >>
    /\ wire = << >>
    /\ jsons = << >>
    /\ moves = NoResult
    /\ output = "none"
    /\ add_tags = << >>
    /\ tag_report = NoTagReport

\* ListPages taking a reply without the payload for an empty page list.
ListPages_missingAsEmpty(r) ==
    /\ pc \in { "start", "list_start" }
    /\ reply' = r
    /\ IF r.kind \in { "list", "no_data", "no_pages" }
       THEN /\ pages' = FilteredPages(r.list, prefix)
            /\ pages_returned' = Len(r.list)
            /\ pc' = IF pc = "start" THEN "listed" ELSE "list_listed"
       ELSE /\ pc' = "panicked"
            /\ UNCHANGED << pages, pages_returned >>
    /\ UNCHANGED << add_tags, tag_report >>
    /\ UNCHANGED << prefix, destination, max_path, proceed, private_pages,
                    proceed_private, ops, raw, wire, jsons, moves, output >>

\* wiki.list_pages(&path, tags).await?
ListPages(r) ==
    /\ pc \in { "start", "list_start" }
    /\ reply' = r
    /\ IF r.kind = "list"
       THEN /\ pages' = FilteredPages(r.list, prefix)
            /\ pages_returned' = Len(r.list)
            /\ pc' = IF pc = "start" THEN "listed" ELSE "list_listed"
       ELSE /\ pc' = IF r.kind \in { "no_data", "no_pages" } THEN "exit_err" ELSE "panicked"
            /\ UNCHANGED << pages, pages_returned >>
    /\ UNCHANGED << add_tags, tag_report >>
    /\ UNCHANGED << prefix, destination, max_path, proceed, private_pages,
                    proceed_private, ops, raw, wire, jsons, moves, output >>

PathLens == { Len(pages[i].path) : i \in 1..Len(pages) }
LongestPath == CHOOSE m \in PathLens : \A l \in PathLens : l <= m

\* list_pages consumed the reply's page list (into_iter): main goes on with
\* the working set and pages_returned only.
Consumed(r) == [ kind |-> r.kind, list |-> << >> ]

\* The listing table: max_path and one line per page with &p.path[trim..].
FormatListing ==
    /\ pc = "listed"
    /\ reply' = Consumed(reply)
    /\ LET trim == Len(prefix)
       IN  IF \/ \E i \in 1..Len(pages) : ~SliceOk(pages[i].path, trim)
              \/ PathLens # {} /\ LongestPath < trim
           THEN /\ pc' = "panicked"
                /\ UNCHANGED max_path
           ELSE /\ max_path' = IF PathLens # {} THEN LongestPath - trim ELSE 50
                /\ pc' = "prompt"
    /\ UNCHANGED << add_tags, tag_report >>
    /\ UNCHANGED << prefix, destination, pages, pages_returned, proceed,
                    private_pages, proceed_private, ops, raw, wire, jsons,
                    moves, output >>

\* The `list` command's table: the same max_path and &p.path[trim..], then
\* the header and the lines are written and the command is over.
ListFormat ==
    /\ pc = "list_listed"
    /\ reply' = Consumed(reply)
    /\ LET trim == Len(prefix)
       IN  IF \/ \E i \in 1..Len(pages) : ~SliceOk(pages[i].path, trim)
              \/ PathLens # {} /\ LongestPath < trim
           THEN /\ pc' = "panicked"
                /\ UNCHANGED << max_path, output >>
           ELSE /\ max_path' = IF PathLens # {} THEN LongestPath - trim ELSE 50
                /\ output' = "listing"
                /\ pc' = "list_done"
    /\ UNCHANGED << add_tags, tag_report >>
    /\ UNCHANGED << prefix, destination, pages, pages_returned, proceed,
                    private_pages, proceed_private, ops, raw, wire, jsons,
                    moves >>

\* Confirm "Are you sure you want to do this?", then safety_check_private.
Confirm(ans) ==
    /\ pc = "prompt"
    /\ proceed' = ans
    /\ IF ans = "yes"
       THEN /\ private_pages' = safety_check_private(pages)
            /\ pc' = IF IsSome(private_pages') THEN "prompt_private" ELSE "move"
       ELSE /\ pc' = "exit_err"
            /\ UNCHANGED private_pages
    /\ UNCHANGED << add_tags, tag_report >>
    /\ UNCHANGED << prefix, destination, reply, pages, pages_returned, max_path,
                    proceed_private, ops, raw, wire, jsons, moves, output >>

\* ConfirmPrivate going on to the move whatever the answer.
ConfirmPrivate_answerIgnored(ans) ==
    /\ pc = "prompt_private"
    /\ proceed_private' = ans
    /\ pc' = "move"
    /\ UNCHANGED << add_tags, tag_report >>
    /\ UNCHANGED << prefix, destination, reply, pages, pages_returned, max_path,
                    proceed, private_pages, ops, raw, wire, jsons, moves, output >>

\* Confirm "Are you really sure you want to move private pages?"
ConfirmPrivate(ans) ==
    /\ pc = "prompt_private"
    /\ proceed_private' = ans
    /\ pc' = IF ans = "yes" THEN "move" ELSE "exit_err"
    /\ UNCHANGED << add_tags, tag_report >>
    /\ UNCHANGED << prefix, destination, reply, pages, pages_returned, max_path,
                    proceed, private_pages, ops, raw, wire, jsons, moves, output >>

\* term.write_line(..)? failing before any mutation is sent.
TermFail ==
    /\ pc \in { "start", "listed", "prompt_private", "list_start", "list_listed" }
    /\ pc' = "exit_err"
    /\ UNCHANGED << add_tags, tag_report >>
    /\ UNCHANGED << prefix, destination, reply, pages, pages_returned, max_path,
                    proceed, private_pages, proceed_private, ops, raw, wire,
                    jsons, moves, output >>

\* move_pages up to join_all(requests): build the operations and the lazy
\* request futures.
MoveStart ==
    /\ pc = "move"
    /\ IF \E i \in 1..Len(pages) : ~SliceOk(pages[i].path, Len(prefix))
       THEN /\ pc' = "panicked"
            /\ UNCHANGED << ops, raw >>
       ELSE /\ ops' = MoveOps(pages, prefix, destination)
            /\ raw' = [ i \in 1..Len(pages) |-> "unsent" ]
            /\ pc' = "sending"
    /\ UNCHANGED << add_tags, tag_report >>
    /\ UNCHANGED << prefix, destination, reply, pages, pages_returned, max_path,
                    proceed, private_pages, proceed_private, wire, jsons,
                    moves, output >>

\* join_all polls the request futures in input order; the first poll of a
\* future sends its request.
CanSend(i) ==
    /\ raw[i] = "unsent"
    /\ \A j \in 1..(i - 1) : raw[j] # "unsent"

SendRequest(i) ==
    /\ pc = "sending"
    /\ CanSend(i)
    /\ raw' = [ raw EXCEPT ![i] = "pending" ]
    /\ wire' = Append(wire, ops[i])
    /\ UNCHANGED << add_tags, tag_report >>
    /\ UNCHANGED << pc, prefix, destination, reply, pages, pages_returned,
                    max_path, proceed, private_pages, proceed_private, ops,
                    jsons, moves, output >>

\* One request resolves to Ok(response) or Err(reqwest::Error).
CompleteRequest(i, o) ==
    /\ pc = "sending"
    /\ raw[i] = "pending"
    /\ raw' = [ raw EXCEPT ![i] = o ]
    /\ UNCHANGED << add_tags, tag_report >>
    /\ UNCHANGED << pc, prefix, destination, reply, pages, pages_returned,
                    max_path, proceed, private_pages, proceed_private, ops,
                    wire, jsons, moves, output >>

AllSettled(outcomes) == \A i \in DOMAIN outcomes : outcomes[i] \in { "ok", "err" }

\* try_join_all instead of join_all: resolved as soon as one request failed.
RequestsJoined_failFast ==
    \/ AllSettled(raw)
    \/ \E i \in DOMAIN raw : raw[i] = "err"

\* join_all(requests) has resolved: partition and classify.
RequestsJoined == AllSettled(raw)

ClassifyRequests ==
    /\ pc = "sending"
    /\ RequestsJoined
    /\ LET c == Classify(raw, "All the requests failed.",
                  "Some, but not all, requests failed. The move may be partially complete.")
       IN  IF c.kind = "Err"
           THEN /\ moves' = c
                /\ pc' = "exit_err"
                /\ UNCHANGED jsons
           ELSE /\ jsons' = [ i \in DOMAIN raw |-> Unread ]
                /\ pc' = "decoding"
                /\ UNCHANGED moves
    /\ UNCHANGED << add_tags, tag_report >>
    /\ UNCHANGED << prefix, destination, reply, pages, pages_returned, max_path,
                    proceed, private_pages, proceed_private, ops, raw, wire,
                    output >>

\* One response body parses as GraphQlResponse<Value>, or fails to.
DecodeBody(i, o) ==
    /\ pc = "decoding"
    /\ jsons[i].st = "pending"
    /\ jsons' = [ jsons EXCEPT ![i] = o ]
    /\ UNCHANGED << add_tags, tag_report >>
    /\ UNCHANGED << pc, prefix, destination, reply, pages, pages_returned,
                    max_path, proceed, private_pages, proceed_private, ops,
                    raw, wire, moves, output >>

DecodeOutcomes ==
    { [ st |-> "err", body |-> None ] }
    \cup { [ st |-> "ok", body |-> Some(b) ] : b \in Bodies }

JsonStates == [ i \in DOMAIN jsons |-> jsons[i].st ]

BodiesJoined == AllSettled(JsonStates)

ClassifyBodies ==
    /\ pc = "decoding"
    /\ BodiesJoined
    /\ LET c == Classify(JsonStates, "Deserialising JSON from all responses failed.",
                  "Deserialising JSON from some responses failed. The move may be partially complete.")
       IN  IF c.kind = "Err"
           THEN /\ moves' = c
                /\ pc' = "exit_err"
           ELSE /\ pc' = "reconcile"
                /\ UNCHANGED moves
    /\ UNCHANGED << add_tags, tag_report >>
    /\ UNCHANGED << prefix, destination, reply, pages, pages_returned, max_path,
                    proceed, private_pages, proceed_private, ops, raw, wire,
                    jsons, output >>

DecodedBodies == [ i \in DOMAIN jsons |-> Unwrap(jsons[i].body) ]

\* zip(ops).filter_map(decode_response(..).unwrap() ..).partition(succeeded)
Reconcile ==
    /\ pc = "reconcile"
    /\ IF \E i \in DOMAIN jsons : ~DecodedBodies[i].typed
       THEN /\ pc' = "panicked"
            /\ UNCHANGED moves
       ELSE /\ moves' = Reconciled(DecodedBodies)
            /\ pc' = "moved"
    /\ UNCHANGED << add_tags, tag_report >>
    /\ UNCHANGED << prefix, destination, reply, pages, pages_returned, max_path,
                    proceed, private_pages, proceed_private, ops, raw, wire,
                    jsons, output >>

\* match moves.failures { None => success message, Some(fails) => listing }
Report ==
    /\ pc = "moved"
    /\ output' = IF IsSome(moves.failures) THEN "failures" ELSE "all_moved"
    /\ pc' = "done"
    /\ UNCHANGED << add_tags, tag_report >>
    /\ UNCHANGED << prefix, destination, reply, pages, pages_returned, max_path,
                    proceed, private_pages, proceed_private, ops, raw, wire,
                    jsons, moves >>

Next ==
    \/ \E r \in ListReplies : ListPages(r)
    \/ FormatListing
    \/ ListFormat
    \/ \E ans \in Answers : Confirm(ans)
    \/ \E ans \in Answers : ConfirmPrivate(ans)
    \/ TermFail
    \/ MoveStart
    \/ \E i \in DOMAIN raw : SendRequest(i)
    \/ \E i \in DOMAIN raw, o \in { "ok", "err" } : CompleteRequest(i, o)
    \/ ClassifyRequests
    \/ \E i \in DOMAIN jsons, o \in DecodeOutcomes : DecodeBody(i, o)
    \/ ClassifyBodies
    \/ Reconcile
    \/ Report

Spec == Init /\ [][Next]_vars

(***************************************************************************)
(* The tag run, as the design describes it (sections 3, 4.3 to 4.5, 6):    *)
(* the working set is tagged instead of moved, through the same dispatch   *)
(* and reconciliation.                                                     *)
(***************************************************************************)
\* Most tag mutations one tag run of the model dispatches.
MaxTagOps == 4

\* --add-tags values.
AddTagLists == { << >>, << << "n" >> >>, << << "n" >>, private_word >> }

\* The safety tag: a digest of prefix followed by destination, no separator.
\* "#" stands for the digest and its encoding.
SafetyTag(pre, dest) == << "#" >> \o pre \o dest

\* tags-to-apply = [safety tag] + caller-supplied extra tags
TagsToApply(pre, dest, extra) == << SafetyTag(pre, dest) >> \o extra

TagOp(p, t) == [ id |-> p.id, tag |-> t, title |-> p.title ]

\* TagOps applying the safety tag only.
TagOps_safetyOnly(ps, tags) ==
    [ k \in 1..Len(ps) |-> TagOp(ps[k], tags[1]) ]

\* The flat list of operations: one per page per tag.
TagOps(ps, tags) ==
    [ k \in 1..(Len(ps) * Len(tags)) |->
        TagOp(ps[((k - 1) \div Len(tags)) + 1], tags[((k - 1) % Len(tags)) + 1]) ]

\* Working sets list_pages can return for a prefix.
WorkingSets(pre) == { FilteredPages(l, pre) : l \in PageLists }

\* A tag run about to dispatch: listed, formatted and confirmed.
TagInit ==
    /\ pc = "tag"
    /\ prefix \in Prefixes
    /\ destination \in Destinations
    /\ add_tags \in AddTagLists
    /\ pages \in WorkingSets(prefix)
    /\ Len(pages) * (1 + Len(add_tags)) <= MaxTagOps
    /\ reply = Consumed([ kind |-> "list", list |-> pages ])
    /\ pages_returned = Len(pages)
    /\ max_path = IF PathLens # {} THEN LongestPath - Len(prefix) ELSE 50
    /\ proceed = "yes"
    /\ private_pages = safety_check_private(pages)
    /\ proceed_private = IF IsSome(private_pages) THEN "yes" ELSE "unasked"
    /\ ops = << >>
    /\ raw = << >>
    /\ wire = << >>
    /\ jsons = << >>
    /\ moves = NoResult
    /\ output = "none"
    /\ tag_report = NoTagReport

\* Build the cross product of pages and tags-to-apply and the requests.
TagStart ==
    /\ pc = "tag"
    /\ ops' = TagOps(pages, TagsToApply(prefix, destination, add_tags))
    /\ raw' = [ k \in 1..Len(ops') |-> "unsent" ]
    /\ pc' = "sending"
    /\ UNCHANGED << add_tags, tag_report >>
    /\ UNCHANGED << prefix, destination, reply, pages, pages_returned, max_path,
                    proceed, private_pages, proceed_private, wire, jsons,
                    moves, output >>

\* The report of a tag run: the reconciled counts with the safety tag and
\* the complete list of tags requested.
TagReport ==
    /\ pc = "moved"
    /\ tag_report' = [ kind |-> "Ok",
                       success_count |-> moves.success_count,
                       failures |-> moves.failures,
                       safety_tag |-> SafetyTag(prefix, destination),
                       tags |-> TagsToApply(prefix, destination, add_tags) ]
    /\ pc' = "tag_done"
    /\ UNCHANGED << add_tags, prefix, destination, reply, pages, pages_returned,
                    max_path, proceed, private_pages, proceed_private, ops,
                    raw, wire, jsons, moves, output >>

TagNext ==
    \/ TagStart
    \/ \E i \in DOMAIN raw : SendRequest(i)
    \/ \E i \in DOMAIN raw, o \in { "ok", "err" } : CompleteRequest(i, o)
    \/ ClassifyRequests
    \/ \E i \in DOMAIN jsons, o \in DecodeOutcomes : DecodeBody(i, o)
    \/ ClassifyBodies
    \/ Reconcile
    \/ TagReport

SpecTag == TagInit /\ [][TagNext]_vars

TypeOK ==
    /\ pc \in { "start", "listed", "prompt", "prompt_private", "move", "sending",
                "decoding", "reconcile", "moved", "done", "exit_err", "panicked",
                "list_start", "list_listed", "list_done" }
    /\ prefix \in Prefixes
    /\ destination \in Destinations \cup { << >> }
    /\ pages_returned \in 0..MaxPages
    /\ Len(pages) <= pages_returned
    /\ proceed \in Answers \cup { "unasked" }
    /\ proceed_private \in Answers \cup { "unasked" }
    /\ moves.kind \in { "none", "Ok", "Err" }
    /\ output \in { "none", "all_moved", "failures", "listing" }

(***************************************************************************)
(* Properties.                                                             *)
(***************************************************************************)
N == Len(pages)
FailedRequests == { i \in DOMAIN raw : raw[i] = "err" }
OkRequests == { i \in DOMAIN raw : raw[i] = "ok" }
FailedBodies == { i \in DOMAIN jsons : jsons[i].st = "err" }
OkBodies == { i \in DOMAIN jsons : jsons[i].st = "ok" }
PastSending ==
    pc \notin { "start", "listed", "prompt", "prompt_private", "move", "sending",
                "list_start", "list_listed", "list_done" }
PastDecoding == PastSending /\ pc # "decoding"
DecodeStageReached == jsons # << >> \/ pc \in { "decoding", "reconcile", "moved", "done" }

\* C1: each stage of move_pages is classified once all of its requests have
\* finished: no failure goes on to the next stage, all failed returns the
\* "all failed" error, a mix returns the "partially complete" error; neither
\* error comes with a report, and bodies are only read when no request failed.
C1_StageClassification ==
    /\ DecodeStageReached => FailedRequests = {} /\ OkRequests = DOMAIN raw
    /\ pc \in { "reconcile", "moved", "done" } =>
           FailedBodies = {} /\ OkBodies = DOMAIN jsons
    /\ (PastSending /\ FailedRequests # {}) =>
           /\ OkRequests \cup FailedRequests = DOMAIN raw
           /\ moves.kind = "Err"
           /\ jsons = << >>
           /\ pc = "exit_err" /\ output = "none"
           /\ moves.msg = IF OkRequests = {}
                          THEN "All the requests failed."
                          ELSE "Some, but not all, requests failed. The move may be partially complete."
    /\ (PastDecoding /\ FailedBodies # {}) =>
           /\ OkBodies \cup FailedBodies = DOMAIN jsons
           /\ moves.kind = "Err"
           /\ pc = "exit_err" /\ output = "none"
           /\ moves.msg = IF OkBodies = {}
                          THEN "Deserialising JSON from all responses failed."
                          ELSE "Deserialising JSON from some responses failed. The move may be partially complete."
    /\ moves.kind = "Err" => FailedRequests # {} \/ FailedBodies # {}

C1_Witness ==
    /\ pc = "exit_err"
    /\ moves.msg = "Deserialising JSON from some responses failed. The move may be partially complete."
    /\ Cardinality(FailedBodies) = 1
    /\ Cardinality(OkBodies) = 2

\* The status a decoded body carries, read off the body level by level.
BodyAt(i) == jsons[i].body[1]
HasStatus(i) ==
    /\ i \in OkBodies
    /\ BodyAt(i).typed
    /\ BodyAt(i).data # None
    /\ BodyAt(i).data[1].pages # None
    /\ BodyAt(i).data[1].pages[1].move_ # None
    /\ BodyAt(i).data[1].pages[1].move_[1].response_result # None
StatusAt(i) == BodyAt(i).data[1].pages[1].move_[1].response_result[1]
SucceededAt == { i \in DOMAIN jsons : HasStatus(i) /\ StatusAt(i).succeeded }
RefusedAt == { i \in DOMAIN jsons : HasStatus(i) /\ ~StatusAt(i).succeeded }
ReportedFailures == IF moves.failures = None THEN << >> ELSE moves.failures[1]

\* C2: when all N responses decode and carry a status, M of them succeeded
\* and K not, the report has success_count = M and failures holds exactly the
\* K failed statuses; failures is None when K = 0 and never Some of no entry.
C2_BatchReconciliation ==
    /\ (moves.kind = "Ok" /\ \A i \in 1..N : HasStatus(i)) =>
           /\ Cardinality(SucceededAt) + Cardinality(RefusedAt) = N
           /\ moves.success_count = Cardinality(SucceededAt)
           /\ Len(ReportedFailures) = Cardinality(RefusedAt)
           /\ \A st \in Statuses :
                  Cardinality({ j \in 1..Len(ReportedFailures) : ReportedFailures[j] = st })
                    = Cardinality({ i \in RefusedAt : StatusAt(i) = st })
           /\ (RefusedAt = {}) <=> (moves.failures = None)
    /\ moves.failures # Some(<< >>)

C2_Witness ==
    /\ pc = "moved"
    /\ N = 3
    /\ \A i \in 1..N : HasStatus(i)
    /\ Cardinality(SucceededAt) = 2
    /\ \E i \in RefusedAt : StatusAt(i).error_code = 403

MoveBuilt == pc \in { "sending", "decoding", "reconcile", "moved", "done" } \/ moves.kind # "none"

DocsOld == << "/", "d", "o", "c", "s", "/", "o", "l", "d" >>
DocsNew == << "/", "d", "o", "c", "s", "/", "n", "e", "w" >>

\* C3: the move request of each page carries the page's id and
\* destination + path[len(prefix)..]: the leading prefix is replaced, the rest
\* of the path is kept, so putting the prefix back recovers the path.
C3_PrefixReplaced ==
    /\ MoveBuilt =>
           /\ Len(ops) = N
           /\ \A i \in 1..N :
                  LET path == pages[i].path
                      dp == ops[i].destination_path
                  IN  /\ ops[i].id = pages[i].id
                      /\ Len(dp) = Len(destination) + Len(path) - Len(prefix)
                      /\ SubSeq(dp, 1, Len(destination)) = destination
                      /\ \A k \in 1..(Len(path) - Len(prefix)) :
                             dp[Len(destination) + k] = path[Len(prefix) + k]
                      /\ prefix \o SubSeq(dp, Len(destination) + 1, Len(dp)) = path
           /\ Len(wire) <= N
           /\ \A i \in 1..Len(wire) : wire[i] = ops[i]
    /\ MoveOps(<< [ id |-> 1, path |-> DocsOld \o << "/", "a" >> ],
                  [ id |-> 2, path |-> DocsOld \o << "/", "b", "/", "c" >> ] >>,
               DocsOld, DocsNew)
         = << [ id |-> 1, destination_path |-> DocsNew \o << "/", "a" >> ],
              [ id |-> 2, destination_path |-> DocsNew \o << "/", "b", "/", "c" >> ] >>

C3_Witness ==
    /\ pc = "sending"
    /\ Len(wire) = 2
    /\ prefix = << "/", "a" >>
    /\ destination = << "/", "n" >>
    /\ wire[2].destination_path = << "/", "n", "/", "c" >>

\* C4: the working set of list_pages holds exactly the pages of the backend
\* reply whose path starts with the prefix (all of them for the empty prefix),
\* in ascending order of path.  Judged on list_pages' return, while the reply is
\* still held.
C4_WorkingSet ==
    (reply.kind = "list" /\ pc \in { "listed", "list_listed" }) =>
        LET matching == { p \in Range(reply.list) :
                            /\ Len(prefix) <= Len(p.path)
                            /\ \A k \in 1..Len(prefix) : p.path[k] = prefix[k] }
        IN  /\ Range(pages) = matching
            /\ Len(pages) = Cardinality(matching)
            /\ pages_returned = Len(reply.list)
            /\ prefix = << >> => Len(pages) = Len(reply.list)
            /\ \A i, j \in 1..Len(pages) :
                   i < j => ~StrLess(pages[j].path, pages[i].path)

C4_Witness ==
    /\ reply.kind = "list"
    /\ Len(reply.list) = 3
    /\ Len(pages) = 2
    /\ prefix # << >>
    /\ pages # SelectSeq(reply.list, LAMBDA p : p \in Range(pages))

\* "private" found by hand: as one of the tags, or letter by letter in the path.
HasPrivateTag(p) ==
    /\ p.tags # None
    /\ \E t \in 1..Len(p.tags[1]) :
           p.tags[1][t] = << << "p", "r", "i", "v", "a", "t", "e" >> >>
HasPrivatePath(p) ==
    \E k \in 0..(Len(p.path) - 7) :
        /\ p.path[k + 1] = "p" /\ p.path[k + 2] = "r" /\ p.path[k + 3] = "i"
        /\ p.path[k + 4] = "v" /\ p.path[k + 5] = "a" /\ p.path[k + 6] = "t"
        /\ p.path[k + 7] = "e"
MarkedPrivate(p) == HasPrivateTag(p) \/ HasPrivatePath(p)
PrivateListed == IF private_pages = None THEN << >> ELSE private_pages[1]
PrivacyChecked == proceed = "yes"

PrivateIndexes == { i \in 1..N : MarkedPrivate(pages[i]) }

\* C6: safety_check_private returns None exactly when no page is private,
\* and otherwise Some of the private pages, all of them and only them, in
\* input order; it never returns Some of an empty sequence.
C6_PrivateSubsequence ==
    /\ PrivacyChecked =>
           /\ (private_pages = None) <=> (PrivateIndexes = {})
           /\ Len(PrivateListed) = Cardinality(PrivateIndexes)
           /\ \E f \in [ 1..Len(PrivateListed) -> 1..N ] :
                  /\ \A a, b \in DOMAIN f : a < b => f[a] < f[b]
                  /\ { f[a] : a \in DOMAIN f } = PrivateIndexes
                  /\ \A a \in DOMAIN f : PrivateListed[a] = pages[f[a]]
           /\ pc = "prompt_private" => PrivateIndexes # {}
           /\ proceed_private = "unasked" /\ pc = "move" => PrivateIndexes = {}
    /\ private_pages # Some(<< >>)

C6_Witness ==
    /\ pc = "prompt_private"
    /\ N = 3
    /\ Len(PrivateListed) = 2
    /\ PrivateListed[1] = pages[1]
    /\ PrivateListed[2] = pages[3]

C6_WitnessNone ==
    /\ pc = "move"
    /\ N > 0
    /\ private_pages = None

\* C7: no move mutation reaches the backend before the listing has
\* completed and the operator has confirmed, and with a private page in the
\* working set not before the private-page prompt is confirmed too; a
\* declined prompt or a failed listing ends the command with none sent.
C7_ConfirmedBeforeMutation ==
    /\ (wire # << >> \/ \E i \in DOMAIN raw : raw[i] # "unsent") =>
           /\ reply.kind = "list"
           /\ proceed = "yes"
           /\ PrivateIndexes # {} => proceed_private = "yes"
    /\ ( \/ proceed \in { "no", "io_err" }
         \/ proceed_private \in { "no", "io_err" }
         \/ reply.kind \notin { "none", "list" } )
         => /\ wire = << >>
            /\ pc \in { "exit_err", "panicked" }
            /\ ops = << >> /\ raw = << >> /\ moves.kind = "none"

C7_Witness ==
    /\ wire # << >>
    /\ PrivateIndexes # {}
    /\ proceed_private = "yes"

C7_WitnessDeclined ==
    /\ pc = "exit_err"
    /\ proceed = "yes"
    /\ proceed_private = "no"
    /\ wire = << >>

Classified == DecodeStageReached \/ moves.kind # "none"

\* C8: move_pages issues exactly one request per input page, a failed
\* request does not stop the others from being sent, and the outcomes are
\* classified only once every request has completed or failed.
C8_JoinAll ==
    /\ Len(wire) <= N
    /\ \A i \in 1..Len(wire) :
           /\ wire[i].id = pages[i].id
           /\ \A j \in 1..Len(wire) : wire[j] = wire[i] => j = i
    /\ \A i \in DOMAIN raw : (raw[i] # "unsent") <=> (i <= Len(wire))
    /\ (pc = "sending" /\ \E i \in DOMAIN raw : raw[i] = "unsent") =>
           ENABLED (\E i \in DOMAIN raw : SendRequest(i))
    /\ Classified =>
           /\ Len(wire) = N
           /\ DOMAIN raw = 1..N
           /\ \A i \in 1..N : raw[i] \in { "ok", "err" }
    /\ (pc \in { "reconcile", "moved", "done" } \/ (FailedBodies # {} /\ PastDecoding)) =>
           \A i \in 1..N : jsons[i].st \in { "ok", "err" }

C8_Witness ==
    /\ pc = "exit_err"
    /\ N = 3
    /\ Len(wire) = 3
    /\ raw = << "err", "ok", "err" >>

MoveEnded == pc \in { "moved", "done", "exit_err", "panicked" }

AllDecoded ==
    /\ MoveEnded
    /\ N > 0
    /\ DOMAIN jsons = 1..N
    /\ OkRequests = 1..N
    /\ OkBodies = 1..N
    /\ \A i \in 1..N : BodyAt(i).typed

\* C9: statuses with succeeded = false never make move_pages return an
\* error: when every request was answered and every body decoded, a report
\* is returned, also when every page reports succeeded = false
\* (success_count = 0, failures lists them all).
C9_RefusalsReported ==
    AllDecoded =>
        /\ pc \in { "moved", "done" }
        /\ moves.kind = "Ok"
        /\ (N > 0 /\ RefusedAt = 1..N) =>
               /\ moves.success_count = 0
               /\ moves.failures = Some([ i \in 1..N |-> StatusAt(i) ])

C9_Witness ==
    /\ AllDecoded
    /\ N = 3
    /\ RefusedAt = 1..N
    /\ moves.kind = "Ok"
    /\ StatusAt(1).error_code # StatusAt(2).error_code

StatusLess ==
    { i \in OkBodies :
        \/ BodyAt(i).data = None
        \/ BodyAt(i).data[1].pages = None
        \/ BodyAt(i).data[1].pages[1].move_ = None
        \/ BodyAt(i).data[1].pages[1].move_[1].response_result = None }

\* C10: a decoded response without its nested status (data, pages, move or
\* responseResult absent) counts neither as a success nor as a failure:
\* success_count + number of failures = N - number of status-less responses,
\* and the failures are statuses that responses did carry.
C10_StatusLessDropped ==
    moves.kind = "Ok" =>
        /\ moves.success_count + Len(ReportedFailures) = N - Cardinality(StatusLess)
        /\ moves.success_count = Cardinality(SucceededAt)
        /\ \A j \in 1..Len(ReportedFailures) :
               \E i \in RefusedAt : StatusAt(i) = ReportedFailures[j]
        /\ Len(ReportedFailures) = Cardinality(RefusedAt)
        /\ StatusLess \cap (SucceededAt \cup RefusedAt) = {}

C10_Witness ==
    /\ pc = "moved"
    /\ N = 3
    /\ StatusLess = { 1, 3 }
    /\ BodyAt(1).data = None
    /\ 2 \in RefusedAt
    /\ BodyAt(3).data # None
    /\ moves.success_count = 0
    /\ Len(ReportedFailures) = 1

CleanBatch == \A i \in 1..N : i \in SucceededAt

\* C11: the move command prints "All pages have been moved successfully"
\* only when every page of the working set had its move confirmed with
\* succeeded = true; every other completed batch prints the failure count
\* and the itemized listing.
C11_SuccessOnlyWhenClean ==
    /\ output = "all_moved" => CleanBatch
    /\ (pc = "done" /\ ~CleanBatch) => output = "failures"

PayloadMissing == reply.kind \in { "no_data", "no_pages" }

\* C12: a list reply without its payload (data absent, or pages absent)
\* makes list_pages return an error and no working set; the query is not
\* sent again and the command is over before any prompt or mutation.
C12_ContractErrorFatal ==
    PayloadMissing =>
        /\ pc = "exit_err"
        /\ pages = << >> /\ pages_returned = 0
        /\ proceed = "unasked" /\ proceed_private = "unasked"
        /\ ops = << >> /\ raw = << >> /\ wire = << >>
        /\ moves.kind = "none" /\ output = "none"
        /\ ~ENABLED (\E r \in ListReplies : ListPages(r))
        /\ ~ENABLED Next

C12_Witness ==
    /\ reply.kind = "no_pages"
    /\ pc = "exit_err"
    /\ destination # << >>

\* C14: the report does not depend on the order in which the requests and
\* bodies completed: it is fixed by the replies taken in input-page order,
\* failures listing the refused statuses in that order, and response i is
\* decoded against operation i.
C14_InputOrderReport ==
    moves.kind = "Ok" =>
        /\ DOMAIN jsons = DOMAIN ops
        /\ DOMAIN ops = 1..N
        /\ \A i \in 1..N : ops[i].id = pages[i].id /\ wire[i] = ops[i]
        /\ moves.success_count = Cardinality(SucceededAt)
        /\ \E f \in [ 1..Len(ReportedFailures) -> 1..N ] :
               /\ \A a, b \in DOMAIN f : a < b => f[a] < f[b]
               /\ { f[a] : a \in DOMAIN f } = RefusedAt
               /\ \A a \in DOMAIN f : ReportedFailures[a] = StatusAt(f[a])

C14_Witness ==
    /\ pc = "moved"
    /\ N = 3
    /\ RefusedAt = { 1, 3 }
    /\ SucceededAt = { 2 }
    /\ StatusAt(1).error_code = 6006
    /\ StatusAt(3).error_code = 403
    /\ ReportedFailures = << StatusAt(1), StatusAt(3) >>

\* Completions do come out of input order on the way to such a report.
C14_OutOfOrder ==
    /\ pc = "decoding"
    /\ N = 3
    /\ jsons[1].st = "pending"
    /\ jsons[3].st = "ok"

EmptyBatchRun ==
    /\ reply.kind = "list"
    /\ N = 0
    /\ proceed = "yes"
    /\ pc \notin { "move", "sending", "decoding", "reconcile" }

\* C15: move_pages on an empty page list sends no request and returns a
\* report with success_count = 0 and failures = None, not the "all requests
\* failed" error; the move command then ends with the success message.
C15_EmptyBatch ==
    /\ (N = 0 /\ reply.kind = "list") => wire = << >> /\ moves.kind # "Err"
    /\ EmptyBatchRun =>
           /\ pc \in { "moved", "done" }
           /\ moves = [ kind |-> "Ok", msg |-> "", success_count |-> 0, failures |-> None ]
           /\ pc = "done" => output = "all_moved"

C15_Witness ==
    /\ EmptyBatchRun
    /\ pc = "done"
    /\ pages_returned > 0
    /\ output = "all_moved"

Formatted ==
    pc \in { "prompt", "prompt_private", "move", "sending", "decoding", "reconcile",
             "moved", "done", "list_done" }
    \/ (pc = "exit_err" /\ proceed # "unasked")

\* C16: in the list and move commands every page whose path is trimmed
\* starts with the prefix, being a page list_pages returned for that prefix:
\* the trim offset is within the path, the column width (longest path minus
\* prefix) is not negative, and no trim panics.
C16_TrimWithinPath ==
    /\ (reply.kind = "list" /\ pc \in { "listed", "list_listed" }) =>
           pages = FilteredPages(reply.list, prefix)
    /\ reply.kind = "list" =>
           /\ \A i \in 1..N :
                  /\ Len(prefix) <= Len(pages[i].path)
                  /\ \A k \in 1..Len(prefix) : pages[i].path[k] = prefix[k]
    /\ max_path >= 0
    /\ (Formatted /\ N > 0) =>
           /\ \A i \in 1..N : Len(pages[i].path) - Len(prefix) <= max_path
           /\ \E i \in 1..N : Len(pages[i].path) - Len(prefix) = max_path
    /\ pc = "panicked" =>
           \/ reply.kind \in { "send_err", "json_err", "decode_err" }
           \/ \E i \in OkBodies : ~BodyAt(i).typed

C16_Witness ==
    /\ pc = "list_done"
    /\ prefix = << "/", "a" >>
    /\ N = 3
    /\ pages_returned = 3
    /\ max_path = 10

C16_WitnessMove ==
    /\ pc = "sending"
    /\ prefix = << "/", "b" >>
    /\ N = 1
    /\ max_path = 7
    /\ Len(wire) = 1

RequestedTags == << << "#" >> \o prefix \o destination >> \o add_tags
TagPairSent(i, j) ==
    { k \in 1..Len(wire) : wire[k].id = pages[i].id /\ wire[k].tag = RequestedTags[j] }

\* C13: a tag run issues exactly one tag mutation per (page, tag) pair of
\* the working set's pages with tags-to-apply, the safety tag followed by
\* the caller's extra tags, and its report carries the safety tag and the
\* complete list of tags requested.
C13_TagCrossProduct ==
    /\ \A i \in 1..N, j \in 1..Len(RequestedTags) : Cardinality(TagPairSent(i, j)) <= 1
    /\ \A k \in 1..Len(wire) :
           \E i \in 1..N, j \in 1..Len(RequestedTags) : k \in TagPairSent(i, j)
    /\ (pc \in { "decoding", "reconcile", "moved", "tag_done" } \/ moves.kind # "none") =>
           /\ Len(wire) = N * Len(RequestedTags)
           /\ \A i \in 1..N, j \in 1..Len(RequestedTags) :
                  Cardinality(TagPairSent(i, j)) = 1
    /\ pc = "tag_done" =>
           /\ tag_report.kind = "Ok"
           /\ tag_report.safety_tag = RequestedTags[1]
           /\ tag_report.tags = RequestedTags
           /\ tag_report.success_count = moves.success_count
           /\ tag_report.failures = moves.failures

C13_Witness ==
    /\ pc = "tag_done"
    /\ N = 2
    /\ Len(add_tags) = 1
    /\ Len(wire) = 4
    /\ tag_report.tags = << << "#", "/", "a", "/", "n" >>, << "n" >> >>

====
